---------------------------- MODULE Spec2Model ----------------------------
(***************************************************************************)
(* Model of sync.py: one invocation reads the certificate store           *)
(* (acme.json), extracts and decodes one certificate/key pair, and        *)
(* updates tls.certificate_chain / tls.private_key of AdGuardHome.yaml    *)
(* after backing the file up.                                             *)
(*                                                                         *)
(* Text is a sequence of code points, a base64 blob a sequence of         *)
(* alphabet positions (0..63, Pad, Junk), a YAML document on disk a       *)
(* sequence of entries.                                                   *)
(***************************************************************************)
EXTENDS Integers, Sequences, FiniteSets, TLC

(***************************************************************************)
(* Bounds of the model                                                     *)
(***************************************************************************)
MaxCerts == 2      \* longest certificate store explored
MaxRuns == 2       \* invocations in a row on the same files

(***************************************************************************)
(* Program constants                                                       *)
(***************************************************************************)
FixedMode == 420   \* 0o644, os.chmod(..., mode=0o644)
RootId == 0        \* os.chown(..., uid=0, gid=0)

(***************************************************************************)
(* base64.b64decode(...).decode('utf-8')                                   *)
(*                                                                         *)
(* An intermediate result is bound as the one element of a set             *)
(* (CHOOSE r \in {f(x) : x \in {e}} : TRUE is f(e)) so that it is computed  *)
(* once.                                                                   *)
(***************************************************************************)
Pad == 64          \* '='
Junk == 65         \* a character outside the base64 alphabet, e.g. newline
Fail == [ok |-> FALSE, val |-> <<>>]     \* the call raised
Ok(v) == [ok |-> TRUE, val |-> v]         \* the call returned v

\* binascii.a2b_base64 (non-strict): characters outside the alphabet are
\* discarded, a completed pad sequence ends parsing, leftover data
\* characters are an error.  st = [q: quad position, left: pending bits,
\* pads: pads seen in a row, out: bytes so far, done: BOOLEAN]
B64Step(st, ch) ==
  IF st.done THEN st
  ELSE IF ch = Pad THEN
         IF st.q >= 2 /\ st.q + st.pads + 1 >= 4
         THEN [st EXCEPT !.done = TRUE, !.q = 0]
         ELSE [st EXCEPT !.pads = st.pads + 1]
  ELSE IF ch >= 64 THEN st
  ELSE CASE st.q = 0 -> [st EXCEPT !.q = 1, !.left = ch, !.pads = 0]
         [] st.q = 1 -> [st EXCEPT !.q = 2, !.pads = 0, !.left = ch % 16,
                            !.out = Append(st.out, st.left * 4 + (ch \div 16))]
         [] st.q = 2 -> [st EXCEPT !.q = 3, !.pads = 0, !.left = ch % 4,
                            !.out = Append(st.out, st.left * 16 + (ch \div 4))]
         [] OTHER    -> [st EXCEPT !.q = 0, !.pads = 0, !.left = 0,
                            !.out = Append(st.out, st.left * 64 + ch)]

RECURSIVE B64Fold(_, _)
B64Fold(st, blob) ==
  IF blob = <<>> THEN st
  ELSE CHOOSE r \in {B64Fold(nx, Tail(blob)) : nx \in {B64Step(st, Head(blob))}} : TRUE

b64decode(blob) ==
  CHOOSE r \in {IF st.q # 0 THEN Fail ELSE Ok(st.out) :
                  st \in {B64Fold([q |-> 0, left |-> 0, pads |-> 0, out |-> <<>>,
                                    done |-> FALSE], blob)}} : TRUE

IsCont(b) == b >= 128 /\ b <= 191

\* bytes.decode('utf-8'), strict
RECURSIVE utf8decode(_)
utf8decode(bs) ==
  IF bs = <<>> THEN Ok(<<>>)
  ELSE LET b == bs[1]
           n == IF b < 128 THEN 1
                ELSE IF b >= 194 /\ b <= 223 THEN 2
                ELSE IF b >= 224 /\ b <= 239 THEN 3
                ELSE IF b >= 240 /\ b <= 244 THEN 4
                ELSE 0
       IN IF n = 0 \/ Len(bs) < n THEN Fail
          ELSE IF \E i \in 2..n : ~IsCont(bs[i]) THEN Fail
          ELSE IF (b = 224 /\ bs[2] < 160) \/ (b = 237 /\ bs[2] > 159)
                  \/ (b = 240 /\ bs[2] < 144) \/ (b = 244 /\ bs[2] > 143) THEN Fail
          ELSE LET cp == CASE n = 1 -> b
                           [] n = 2 -> (b - 192) * 64 + (bs[2] - 128)
                           [] n = 3 -> (b - 224) * 4096 + (bs[2] - 128) * 64 + (bs[3] - 128)
                           [] OTHER -> (b - 240) * 262144 + (bs[2] - 128) * 4096
                                       + (bs[3] - 128) * 64 + (bs[4] - 128)
               IN CHOOSE r \in {IF ~rest.ok THEN Fail ELSE Ok(<<cp>> \o rest.val) :
                                   rest \in {utf8decode(tl) : tl \in {SubSeq(bs, n + 1, Len(bs))}}} : TRUE

\* line 36 / 37: base64.b64decode(x).decode('utf-8'); Fail when either raises
DecodeField(blob) ==
  CHOOSE r \in {IF ~raw.ok THEN Fail ELSE utf8decode(raw.val) : raw \in {b64decode(blob)}} : TRUE

(***************************************************************************)
(* The certificate store (acme.json) and the selector                      *)
(***************************************************************************)
\* A JSON object of the Certificates list: `present' are the keys it has.
CertObj(d, c, k) ==
  [present |-> {"domain", "certificate", "key"}, domain |-> d, certificate |-> c, key |-> k]
EmptyObj == [present |-> {}, domain |-> <<>>, certificate |-> <<>>, key |-> <<>>]

DomA == <<97>>                      \* "a"
DomB == <<98>>                      \* "b"
EncA == <<16, 16, 64, 64>>          \* "QQ=="  -> "A"
EncAnl == <<16, 16, 64, 64, 65>>    \* "QQ==\n" -> "A"
EncB == <<16, 32, 64, 64>>          \* "Qg=="  -> "B"
EncAB == <<16, 20, 8, 64>>          \* "QUI="  -> "AB"
EncPem == <<16, 16, 41, 2>>         \* "QQpC"  -> "A\nB"
EncBadPad == <<16>>                 \* "Q": binascii.Error
EncBadUtf == <<63, 48, 64, 64>>     \* "/w==": byte 0xFF, UnicodeDecodeError

RecA == CertObj(DomA, EncA, EncAB)
RecB == CertObj(DomB, EncB, EncPem)
RecA2 == CertObj(DomA, EncAnl, EncBadUtf)   \* a second record for "a"
RecBad64 == CertObj(DomB, EncBadPad, EncAB)
Records == {RecA, RecB, RecA2, RecBad64, EmptyObj}

Stores == UNION {[1..n -> Records] : n \in 0..MaxCerts}

\* --domain-name: not given at all (None), or a string
NoSelector == [given |-> FALSE, s |-> <<>>]
Sel(s) == [given |-> TRUE, s |-> s]
Selectors ==
  {NoSelector, Sel(<<>>), Sel(<<32>>), Sel(DomA), Sel(DomB), Sel(<<65>>)}

Whitespace == {9, 10, 11, 12, 13, 28, 29, 30, 31, 32, 133, 160}

\* str.isspace(): at least one character and all of them whitespace
isspace(s) == Len(s) > 0 /\ \A i \in 1..Len(s) : s[i] \in Whitespace

\* line 25: not domain_name or domain_name.isspace()
IsBlank(sel) == ~sel.given \/ sel.s = <<>> \/ isspace(sel.s)

\* line 31: next((d for d in ... if d['domain']['main'] == domain_name), None)
\* scanned from position i: the index found, 0 for None, -1 when d['domain']
\* raises KeyError before a match
\* Variant: the last matching object instead of the first.
SearchDomain_last(certs, name, i) ==
  LET hits == {j \in i..Len(certs) : "domain" \in certs[j].present /\ certs[j].domain = name}
  IN IF hits = {} THEN 0 ELSE CHOOSE j \in hits : \A h \in hits : h <= j

RECURSIVE SearchDomain(_, _, _)
SearchDomain(certs, name, i) ==
  IF i > Len(certs) THEN 0
  ELSE IF "domain" \notin certs[i].present THEN -1
  ELSE IF certs[i].domain = name THEN i
  ELSE SearchDomain(certs, name, i + 1)

Outcome(kind, cert, key, msg) == [kind |-> kind, cert |-> cert, key |-> key, msg |-> msg]
Raise(kind) == Outcome(kind, <<>>, <<>>, <<>>)

\* lines 35-38, for the selected object
DecodeObj(obj) ==
  IF "certificate" \notin obj.present THEN Raise("KeyError")
  ELSE CHOOSE r \in
         {IF ~c.ok THEN Raise("DecodeError")
          ELSE IF "key" \notin obj.present THEN Raise("KeyError")
          ELSE CHOOSE r2 \in {IF ~k.ok THEN Raise("DecodeError")
                              ELSE Outcome("ok", c.val, k.val, <<>>) :
                              k \in {DecodeField(obj.key)}} : TRUE :
          c \in {DecodeField(obj.certificate)}} : TRUE

\* lines 24-38 of read_traefik, the store already loaded
read_traefik(certs, sel) ==
  IF IsBlank(sel)
  THEN IF Len(certs) = 0 THEN Raise("IndexError")           \* [0] of an empty list
       ELSE IF certs[1].present = {} THEN Outcome("SystemExit", <<>>, <<>>, <<>>)
       ELSE DecodeObj(certs[1])
  ELSE LET i == SearchDomain(certs, sel.s, 1) IN
       IF i = -1 THEN Raise("KeyError")
       ELSE IF i = 0 THEN Outcome("SystemExit", <<>>, <<>>, sel.s)
       ELSE DecodeObj(certs[i])

(***************************************************************************)
(* AdGuardHome.yaml: the tree and its text                                 *)
(***************************************************************************)
Str(s) == [t |-> "str", s |-> s]
Null == [t |-> "null", s |-> <<>>]

CertKey == "tls.certificate_chain"
PrivKey == "tls.private_key"
\* yaml.dump sorts mapping keys
KeyOrder == <<"dns", CertKey, PrivKey, "users">>
Garbage == [k |-> "%", v |-> Null, style |-> ""]   \* text no YAML parser accepts

LineBreaks == {10, 11, 12, 13, 28, 29, 30, 133, 8232, 8233}

\* len(data.splitlines()), line 13
RECURSIVE CountLines(_, _, _)
CountLines(s, i, open) ==
  IF i > Len(s) THEN (IF open THEN 1 ELSE 0)
  ELSE IF s[i] \in LineBreaks
       THEN 1 + CountLines(s, IF s[i] = 13 /\ i < Len(s) /\ s[i + 1] = 10 THEN i + 2 ELSE i + 1, FALSE)
       ELSE CountLines(s, i + 1, TRUE)

\* str_presenter, lines 12-15: the literal style for a multiline string
str_presenter(v) ==
  IF v.t = "str" /\ CountLines(v.s, 1, FALSE) > 1 THEN "|" ELSE ""

Entry(k, v) == [k |-> k, v |-> v, style |-> str_presenter(v)]

\* yaml.load (line 55): the tree as a function from the keys in the text to
\* their values, a repeated key keeping its last value
yaml_load(doc) ==
  IF \E i \in 1..Len(doc) : doc[i] = Garbage THEN Fail
  ELSE LET keys == {doc[i].k : i \in 1..Len(doc)}
           last(k) == CHOOSE i \in 1..Len(doc) :
                         doc[i].k = k /\ \A j \in (i + 1)..Len(doc) : doc[j].k # k
       IN Ok([k \in keys |-> doc[last(k)].v])

\* yaml.dump (line 72): one entry per key, in sorted key order
RECURSIVE DumpFrom(_, _)
DumpFrom(tree, i) ==
  IF i > Len(KeyOrder) THEN <<>>
  ELSE (IF KeyOrder[i] \in DOMAIN tree
        THEN <<Entry(KeyOrder[i], tree[KeyOrder[i]])>> ELSE <<>>) \o DumpFrom(tree, i + 1)

\* Variant: only the tls section is dumped.
yaml_dump_tls_only(tree) == DumpFrom([k \in DOMAIN tree \cap {CertKey, PrivKey} |-> tree[k]], 1)

yaml_dump(tree) == DumpFrom(tree, 1)

TextA == <<65>>
TextB == <<66>>
TextAB == <<65, 66>>
Dns == Str(<<100>>)
Users == Str(<<117, 10, 118>>)

\* the target file's text before the first run (DocFresh: a new install,
\* kept only as the text of an earlier backup)
DocSame == <<Entry("users", Users), Entry(CertKey, Str(TextA)), Entry(PrivKey, Str(TextAB)),
             Entry("dns", Dns)>>
DocOldCert == <<Entry(CertKey, Str(TextB)), Entry("users", Users), Entry("dns", Dns),
                Entry(PrivKey, Str(TextAB))>>
DocFresh == <<Entry("dns", Dns), Entry(CertKey, Str(<<>>)), Entry(PrivKey, Str(<<>>))>>
DocNoKey == <<Entry("dns", Dns), Entry(CertKey, Str(TextA))>>
DocNull == <<Entry(CertKey, Null), Entry(PrivKey, Str(TextAB)), Entry("dns", Dns)>>
DocBroken == <<Entry("dns", Dns), Garbage>>
Docs == {DocSame, DocOldCert, DocNoKey, DocNull, DocBroken}

(***************************************************************************)
(* State                                                                   *)
(***************************************************************************)
VARIABLES
  source,              \* acme.json on disk: [state, store]
  domain_name,         \* --domain-name
  target,              \* AdGuardHome.yaml on disk: [exists, content, mode, uid, gid]
  backup,              \* AdGuardHome-backup.yaml on disk: [exists, content, mode]
  run,                 \* number of the current invocation
  pc,                  \* the step the invocation is about to execute
  acme_config,         \* read_traefik: the loaded Certificates list
  cert, key,           \* run: the decoded credential
  adguardhome_config,  \* write_adguardhome: the loaded tree
  old_cert, old_key,   \* write_adguardhome, lines 56-57
  is_dirty,            \* write_adguardhome, line 58
  exitCode,            \* -1 while running, then the process's exit status
  error,               \* what ended the run: [step, kind, msg]
  trace,               \* the steps this run has executed, in order
  preTarget,           \* target as it was when this run started
  preBackup,           \* backup as it was when this run started
  backedUp,            \* create_backup returned in this run
  assigned,            \* the tls fields this run assigned
  wrote,               \* this run closed the target after dumping to it
  prevWrote            \* the previous run did

vars == <<source, domain_name, target, backup, run, pc, acme_config, cert, key,
          adguardhome_config, old_cert, old_key, is_dirty, exitCode, error, trace,
          preTarget, preBackup, backedUp, assigned, wrote, prevWrote>>

env == <<source, domain_name>>
locals == <<acme_config, cert, key, adguardhome_config, old_cert, old_key, is_dirty>>
history == <<preTarget, preBackup, prevWrote>>

NoFile == [exists |-> FALSE, content |-> <<>>, mode |-> 0, uid |-> 0, gid |-> 0]
UserFile(doc) == [exists |-> TRUE, content |-> doc, mode |-> 384, uid |-> 1000, gid |-> 1000]
NoBackup == [exists |-> FALSE, content |-> <<>>, mode |-> 0]
StaleBackup == [exists |-> TRUE, content |-> DocFresh, mode |-> 384]

Sources == {[state |-> "missing", store |-> <<>>], [state |-> "malformed", store |-> <<>>]}
             \cup {[state |-> "ok", store |-> s] : s \in Stores}

NoError == [step |-> "", kind |-> "", msg |-> <<>>]
EmptyTree == [k \in {} |-> Null]

Terminal == {"Done", "Abort", "Killed"}
Terminated == pc \in Terminal

Init ==
  /\ source \in Sources
  /\ domain_name \in Selectors
  /\ target \in {NoFile} \cup {UserFile(d) : d \in Docs}
  /\ backup \in {NoBackup, StaleBackup}
  /\ run = 1
  /\ pc = "Init"
  /\ acme_config = <<>>
  /\ cert = <<>>
  /\ key = <<>>
  /\ adguardhome_config = EmptyTree
  /\ old_cert = Null
  /\ old_key = Null
  /\ is_dirty = FALSE
  /\ exitCode = -1
  /\ error = NoError
  /\ trace = <<>>
  /\ preTarget = target
  /\ preBackup = backup
  /\ backedUp = FALSE
  /\ assigned = {}
  /\ wrote = FALSE
  /\ prevWrote = FALSE

\* An uncaught exception or sys.exit(message): traceback or message on
\* stderr, exit status 1.
Fatal(step, kind, msg) ==
  /\ pc' = "Abort"
  /\ exitCode' = 1
  /\ error' = [step |-> step, kind |-> kind, msg |-> msg]

\* the steps that start executing in this action
Enter(steps) == trace' = trace \o steps

(***************************************************************************)
(* run, lines 93-98                                                        *)
(***************************************************************************)
\* lines 94-95
Initialize ==
  /\ pc = "Init"
  /\ Enter(<<"Init">>)
  /\ pc' = "ReadSource"
  /\ UNCHANGED <<env, target, backup, run, locals, exitCode, error, history,
                 backedUp, assigned, wrote>>

\* read_traefik, lines 20-22
ReadSource ==
  /\ pc = "ReadSource"
  /\ Enter(<<"ReadSource">>)
  /\ IF source.state = "missing"
     THEN Fatal("ReadSource", "FileNotFoundError", <<>>) /\ UNCHANGED acme_config
     ELSE IF source.state = "malformed"
     THEN Fatal("ReadSource", "JSONDecodeError", <<>>) /\ UNCHANGED acme_config
     ELSE /\ acme_config' = source.store
          /\ pc' = "ExtractCredential"
          /\ UNCHANGED <<exitCode, error>>
  /\ UNCHANGED <<env, target, backup, run, cert, key, adguardhome_config, old_cert,
                 old_key, is_dirty, history, backedUp, assigned, wrote>>

\* read_traefik, lines 24-38
ExtractCredential ==
  /\ pc = "ExtractCredential"
  /\ Enter(<<"ExtractCredential">>)
  /\ \E r \in {read_traefik(acme_config, domain_name)} :
     IF r.kind = "ok"
     THEN /\ cert' = r.cert
          /\ key' = r.key
          /\ pc' = "ReadTarget"
          /\ UNCHANGED <<exitCode, error>>
     ELSE /\ Fatal("ExtractCredential", r.kind, r.msg)
          /\ UNCHANGED <<cert, key>>
  /\ UNCHANGED <<env, target, backup, run, acme_config, adguardhome_config, old_cert,
                 old_key, is_dirty, history, backedUp, assigned, wrote>>

(***************************************************************************)
(* write_adguardhome, lines 52-75                                          *)
(***************************************************************************)
\* Variant: the target is opened for writing ('w+') when it is read.
ReadTarget_truncating ==
  /\ pc = "ReadTarget"
  /\ Enter(<<"ReadTarget">>)
  /\ IF ~target.exists
     THEN Fatal("ReadTarget", "FileNotFoundError", <<>>) /\ UNCHANGED target
     ELSE Fatal("ReadTarget", "KeyError", <<>>) /\ target' = [target EXCEPT !.content = <<>>]
  /\ UNCHANGED <<env, backup, run, locals, history, backedUp, assigned, wrote>>

\* lines 53-57; a document without tls.certificate_chain or
\* tls.private_key (an empty one too) fails the lookups of lines 56-57
ReadTarget ==
  /\ pc = "ReadTarget"
  /\ Enter(<<"ReadTarget">>)
  /\ LET loaded == yaml_load(target.content) IN
     IF ~target.exists
     THEN Fatal("ReadTarget", "FileNotFoundError", <<>>)
          /\ UNCHANGED <<adguardhome_config, old_cert, old_key>>
     ELSE IF ~loaded.ok
     THEN Fatal("ReadTarget", "YAMLError", <<>>)
          /\ UNCHANGED <<adguardhome_config, old_cert, old_key>>
     ELSE IF CertKey \notin DOMAIN loaded.val
     THEN /\ Fatal("ReadTarget", "KeyError", <<>>)
          /\ adguardhome_config' = loaded.val
          /\ UNCHANGED <<old_cert, old_key>>
     ELSE IF PrivKey \notin DOMAIN loaded.val
     THEN /\ Fatal("ReadTarget", "KeyError", <<>>)
          /\ adguardhome_config' = loaded.val
          /\ old_cert' = loaded.val[CertKey]
          /\ UNCHANGED old_key
     ELSE /\ adguardhome_config' = loaded.val
          /\ old_cert' = loaded.val[CertKey]
          /\ old_key' = loaded.val[PrivKey]
          /\ pc' = "DetectChanges"
          /\ UNCHANGED <<exitCode, error>>
  /\ UNCHANGED <<env, target, backup, run, acme_config, cert, key, is_dirty, history,
                 backedUp, assigned, wrote>>

\* Variant: every comparison reports a change.
has_changed_always(old, new) ==
  IF old.t = "str" THEN "True" ELSE "AttributeError"

\* has_changed, lines 40-49: True, None, or the AttributeError of
\* get_first_lines(old, 1) when old is not a string
has_changed(old, new) ==
  IF old # Str(new)
  THEN (IF old.t = "str" THEN "True" ELSE "AttributeError")
  ELSE "None"

\* line 61
AssignCert(config) == [config EXCEPT ![CertKey] = Str(cert)]

\* Variant: the certificate is stored as the private key.
AssignKey_cert(config) == [config EXCEPT ![PrivKey] = Str(cert)]

\* line 64
AssignKey(config) == [config EXCEPT ![PrivKey] = Str(key)]

\* lines 58-67, and 75 and 98 when nothing changed
DetectChanges ==
  /\ pc = "DetectChanges"
  /\ LET c == has_changed(old_cert, cert)
         config1 == IF c = "True" THEN AssignCert(adguardhome_config) ELSE adguardhome_config
         k == has_changed(old_key, key)
         config2 == IF k = "True" THEN AssignKey(config1) ELSE config1
     IN IF c = "AttributeError"
        THEN /\ Fatal("DetectChanges", "AttributeError", <<>>)
             /\ Enter(<<"DetectChanges">>)
             /\ UNCHANGED <<adguardhome_config, is_dirty, assigned>>
        ELSE IF k = "AttributeError"
        THEN /\ Fatal("DetectChanges", "AttributeError", <<>>)
             /\ Enter(<<"DetectChanges">>)
             /\ adguardhome_config' = config1
             /\ is_dirty' = (c = "True")
             /\ assigned' = IF c = "True" THEN {CertKey} ELSE {}
        ELSE /\ adguardhome_config' = config2
             /\ is_dirty' = (c = "True" \/ k = "True")
             /\ assigned' = (IF c = "True" THEN {CertKey} ELSE {})
                              \cup (IF k = "True" THEN {PrivKey} ELSE {})
             /\ IF is_dirty'
                THEN /\ pc' = "BackupTarget"
                     /\ Enter(<<"DetectChanges">>)
                     /\ UNCHANGED exitCode
                ELSE /\ pc' = "Done"
                     /\ Enter(<<"DetectChanges", "Done">>)
                     /\ exitCode' = 0
             /\ UNCHANGED error
  /\ UNCHANGED <<env, target, backup, run, acme_config, cert, key, old_cert, old_key,
                 history, backedUp, wrote>>

\* Variant: a failed copy is ignored and the run goes on to write.
BackupTarget_swallow ==
  /\ pc = "BackupTarget"
  /\ Enter(<<"BackupTarget">>)
  /\ \/ /\ backup' = [exists |-> TRUE, content |-> target.content, mode |-> target.mode]
        /\ backedUp' = TRUE
     \/ /\ backup' \in {backup, [exists |-> TRUE, content |-> <<>>, mode |-> 384]}
        /\ UNCHANGED backedUp
  /\ pc' = "WriteTarget"
  /\ UNCHANGED <<env, target, run, locals, history, assigned, wrote, exitCode, error>>

\* Variant: a failed copy is tried again.
BackupTarget_retry ==
  /\ pc = "BackupTarget"
  /\ Enter(<<"BackupTarget">>)
  /\ \/ /\ backup' = [exists |-> TRUE, content |-> target.content, mode |-> target.mode]
        /\ backedUp' = TRUE
        /\ pc' = "WriteTarget"
     \/ /\ Len(trace) < 8
        /\ backup' \in {backup, [exists |-> TRUE, content |-> <<>>, mode |-> 384]}
        /\ UNCHANGED <<backedUp, pc>>
  /\ UNCHANGED <<env, target, run, locals, history, assigned, wrote, exitCode, error>>

\* create_backup, lines 84-90 (called at line 69): shutil.copy2 copies the
\* content and the mode; when it raises, the backup is as it was or was
\* created without the content.
BackupTarget ==
  /\ pc = "BackupTarget"
  /\ Enter(<<"BackupTarget">>)
  /\ \/ /\ backup' = [exists |-> TRUE, content |-> target.content, mode |-> target.mode]
        /\ backedUp' = TRUE
        /\ pc' = "WriteTarget"
        /\ UNCHANGED <<exitCode, error>>
     \/ /\ backup' \in {backup, [exists |-> TRUE, content |-> <<>>, mode |-> 384]}
        /\ Fatal("BackupTarget", "OSError", <<>>)
        /\ UNCHANGED backedUp
  /\ UNCHANGED <<env, target, run, locals, history, assigned, wrote>>

\* line 71: open(adguardhome_path, 'w') truncates the file
WriteTarget ==
  /\ pc = "WriteTarget"
  /\ Enter(<<"WriteTarget">>)
  /\ \/ /\ target' = [target EXCEPT !.content = <<>>]
        /\ pc' = "Dumping"
        /\ UNCHANGED <<exitCode, error>>
     \/ /\ Fatal("WriteTarget", "PermissionError", <<>>)
        /\ UNCHANGED target
  /\ UNCHANGED <<env, backup, run, locals, history, backedUp, assigned, wrote>>

\* line 72: yaml.dump(adguardhome_config, f) streams the document into the
\* open file, one entry at a time; the file is closed after the last one
\* (or the write raises)
Dump ==
  /\ pc = "Dumping"
  /\ LET text == yaml_dump(adguardhome_config)
         n == Len(target.content)
     IN \/ /\ n < Len(text)
           /\ target' = [target EXCEPT !.content = Append(@, text[n + 1])]
           /\ IF n + 1 = Len(text)
              THEN pc' = "FixPermissions" /\ wrote' = TRUE
              ELSE UNCHANGED <<pc, wrote>>
           /\ UNCHANGED <<exitCode, error>>
        \/ /\ n < Len(text)
           /\ Fatal("WriteTarget", "OSError", <<>>)
           /\ UNCHANGED <<target, wrote>>
  /\ UNCHANGED <<env, backup, run, locals, history, backedUp, assigned, trace>>

\* fix_permissions, line 80 (called at line 73)
FixPermissions ==
  /\ pc = "FixPermissions"
  /\ Enter(<<"FixPermissions">>)
  /\ \/ /\ target' = [target EXCEPT !.mode = FixedMode]
        /\ pc' = "Chown"
        /\ UNCHANGED <<exitCode, error>>
     \/ /\ Fatal("FixPermissions", "PermissionError", <<>>)
        /\ UNCHANGED target
  /\ UNCHANGED <<env, backup, run, locals, history, backedUp, assigned, wrote>>

\* Variant: when the ownership cannot be changed the backup is copied back.
Chown_rollback ==
  /\ pc = "Chown"
  /\ \/ /\ target' = [target EXCEPT !.uid = RootId, !.gid = RootId]
        /\ pc' = "Done"
        /\ exitCode' = 0
        /\ Enter(<<"Done">>)
        /\ UNCHANGED error
     \/ /\ Fatal("FixPermissions", "PermissionError", <<>>)
        /\ target' = [target EXCEPT !.content = backup.content]
        /\ UNCHANGED trace
  /\ UNCHANGED <<env, backup, run, locals, history, backedUp, assigned, wrote>>

\* fix_permissions, line 81, then line 98
Chown ==
  /\ pc = "Chown"
  /\ \/ /\ target' = [target EXCEPT !.uid = RootId, !.gid = RootId]
        /\ pc' = "Done"
        /\ exitCode' = 0
        /\ Enter(<<"Done">>)
        /\ UNCHANGED error
     \/ /\ Fatal("FixPermissions", "PermissionError", <<>>)
        /\ UNCHANGED <<target, trace>>
  /\ UNCHANGED <<env, backup, run, locals, history, backedUp, assigned, wrote>>

(***************************************************************************)
(* The process and its environment                                         *)
(***************************************************************************)
\* The process is killed between two steps: nothing after this point runs.
Interrupt ==
  /\ ~Terminated
  /\ pc' = "Killed"
  /\ exitCode' = 137
  /\ error' = [step |-> pc, kind |-> "Killed", msg |-> <<>>]
  /\ UNCHANGED <<env, target, backup, run, locals, trace, history, backedUp,
                 assigned, wrote>>

\* The program is invoked again, on the files the last run left and with
\* the same source and selector.
NextRun ==
  /\ Terminated
  /\ run < MaxRuns
  /\ run' = run + 1
  /\ pc' = "Init"
  /\ acme_config' = <<>>
  /\ cert' = <<>>
  /\ key' = <<>>
  /\ adguardhome_config' = EmptyTree
  /\ old_cert' = Null
  /\ old_key' = Null
  /\ is_dirty' = FALSE
  /\ exitCode' = -1
  /\ error' = NoError
  /\ trace' = <<>>
  /\ preTarget' = target
  /\ preBackup' = backup
  /\ backedUp' = FALSE
  /\ assigned' = {}
  /\ wrote' = FALSE
  /\ prevWrote' = wrote
  /\ UNCHANGED <<env, target, backup>>

Step ==
  \/ Initialize
  \/ ReadSource
  \/ ExtractCredential
  \/ ReadTarget
  \/ DetectChanges
  \/ BackupTarget
  \/ WriteTarget
  \/ Dump
  \/ FixPermissions
  \/ Chown

Next == Step \/ Interrupt \/ NextRun

Spec == Init /\ [][Next]_vars

\* Every call of the program blocks and then returns or raises: a run that
\* is not killed keeps taking steps.
LiveSpec == Spec /\ WF_vars(Step)

(***************************************************************************)
(* Properties                                                              *)
(***************************************************************************)
InTrace(step) == \E i \in 1..Len(trace) : trace[i] = step
IsPrefix(a, b) == Len(a) <= Len(b) /\ SubSeq(b, 1, Len(a)) = a

\* every object of the loaded store is a certificate record
Conforming == \A i \in 1..Len(acme_config) : acme_config[i].present # {}
\* the selector is absent, empty or whitespace only
BlankSelector ==
  ~domain_name.given \/ \A i \in 1..Len(domain_name.s) : domain_name.s[i] \in Whitespace
\* the positions of the records whose domain is the selector
Matching == {i \in 1..Len(acme_config) : acme_config[i].domain = domain_name.s}
\* the position of the record the selector stands for, 0 when there is none
Selected ==
  IF BlankSelector THEN (IF Len(acme_config) > 0 THEN 1 ELSE 0)
  ELSE IF Matching = {} THEN 0
  ELSE CHOOSE i \in Matching : \A j \in Matching : i <= j

\* the steps at which nothing has been written to the target yet
PreWriteSteps == {"ReadSource", "ExtractCredential", "ReadTarget", "DetectChanges", "BackupTarget"}

\* the two orders of steps of a complete run
FullPath == <<"Init", "ReadSource", "ExtractCredential", "ReadTarget", "DetectChanges",
              "BackupTarget", "WriteTarget", "FixPermissions", "Done">>
ShortPath == <<"Init", "ReadSource", "ExtractCredential", "ReadTarget", "DetectChanges", "Done">>

TraceLinear == IsPrefix(trace, FullPath) \/ IsPrefix(trace, ShortPath)

\* the step about to run is the next one of the order (Dumping and Chown
\* are inside WriteTarget and FixPermissions); a run is Done exactly when
\* its last executed step is Done
PcInOrder ==
  CASE pc \in Terminal -> pc = "Done" <=> (trace # <<>> /\ trace[Len(trace)] = "Done")
    [] pc = "Dumping" -> trace # <<>> /\ trace[Len(trace)] = "WriteTarget"
    [] pc = "Chown" -> trace # <<>> /\ trace[Len(trace)] = "FixPermissions"
    [] OTHER -> Len(trace) < Len(FullPath) /\ FullPath[Len(trace) + 1] = pc

\* C1: whenever the target's content differs from what it was when the run
\* started, create_backup has returned in this run and the backup file
\* holds exactly that earlier content (and mode), whatever the backup held
\* before.
C1_BackupBeforeWrite ==
  target.content # preTarget.content =>
    /\ backedUp
    /\ backup.exists
    /\ backup.content = preTarget.content
    /\ backup.mode = preTarget.mode

C1_Witness ==
  /\ pc = "Dumping"
  /\ target.content # preTarget.content
  /\ preBackup = StaleBackup
  /\ backup # preBackup

\* C2: however a run ends (done, failed or killed at any point), the
\* target's content is either what it was when the run started or the
\* complete new serialization, never empty or truncated.
C2_NoPartialWrite ==
  Terminated =>
    \/ target.content = preTarget.content
    \/ target.content = yaml_dump(adguardhome_config)

\* C3: a run that ends in a fatal error at a step before the write exits
\* non-zero with the target (content, mode, owner) as it was when the run
\* started, and the backup as it was too unless the failing step is the
\* backup itself.
C3_AbortLeavesTarget ==
  (pc = "Abort" /\ error.step \in PreWriteSteps) =>
    /\ exitCode # 0
    /\ target = preTarget
    /\ (backup = preBackup \/ error.step = "BackupTarget")
    /\ ~wrote

C3_Witness ==
  /\ pc = "Abort"
  /\ error.step = "ExtractCredential"
  /\ error.kind = "SystemExit"
  /\ ~BlankSelector
  /\ target.exists
  /\ target = preTarget

\* C4: once the changes have been looked for, if the stored certificate
\* chain and private key equal the extracted ones the run is done with exit
\* status 0, no backup made, nothing written, and the target's content,
\* mode and owner as they were.
C4_NoChangeRun ==
  (InTrace("DetectChanges") /\ old_cert = Str(cert) /\ old_key = Str(key)) =>
    /\ pc = "Done"
    /\ exitCode = 0
    /\ ~backedUp
    /\ ~wrote
    /\ backup = preBackup
    /\ target = preTarget

C4_Witness ==
  /\ InTrace("DetectChanges")
  /\ old_cert = Str(cert)
  /\ old_key = Str(key)
  /\ pc = "Done"
  /\ run = 1

\* C5: in the run that follows a run which completed its write, with the
\* same source and selector, no backup is made, the target is not written,
\* no step of the write path is reached, the run does not fail, and when it
\* is done its exit status is 0.
C5_SecondRunWritesNothing ==
  prevWrote =>
    /\ ~backedUp
    /\ ~wrote
    /\ target = preTarget
    /\ backup = preBackup
    /\ pc \notin {"Abort", "BackupTarget", "WriteTarget", "Dumping", "FixPermissions", "Chown"}
    /\ (InTrace("DetectChanges") => pc = "Done" /\ exitCode = 0 /\ ~is_dirty)

C5_Witness ==
  /\ prevWrote
  /\ pc = "Done"
  /\ exitCode = 0
  /\ InTrace("DetectChanges")

\* C6: for a store of certificate records, after extraction: with an
\* absent, empty or whitespace-only selector the credential is the decoded
\* first record; with any other selector it is the decoded record of lowest
\* position whose domain equals the selector, wherever that is; in both
\* cases provided the record's two fields decode.
C6_RecordSelection ==
  (InTrace("ExtractCredential") /\ Conforming /\ Selected # 0) =>
    LET rec == acme_config[Selected]
        c == DecodeField(rec.certificate)
        k == DecodeField(rec.key)
    IN IF c.ok /\ k.ok
       THEN error.step # "ExtractCredential" /\ cert = c.val /\ key = k.val
       ELSE pc = "Abort" /\ error.step = "ExtractCredential" /\ error.kind = "DecodeError"

C6_Witness ==
  /\ InTrace("ExtractCredential")
  /\ acme_config = <<RecB, RecA>>
  /\ domain_name = Sel(DomA)
  /\ cert = TextA
  /\ key = TextAB

\* C7: for a store of certificate records, extraction ends in the explicit
\* "Could not find any certificate" exit both when the selector is blank
\* and the store is empty and when a selector is given that no record's
\* domain equals, the message then naming the selector.
C7_NotFound ==
  (InTrace("ExtractCredential") /\ Conforming /\ Selected = 0) =>
    /\ pc = "Abort"
    /\ error.step = "ExtractCredential"
    /\ error.kind = "SystemExit"
    /\ (~BlankSelector => error.msg = domain_name.s)

\* C8: once a run has written the target, the file's tree has the keys it
\* had, every key other than the two tls fields with its old value, the two
\* tls fields equal to the extracted credential; the fields assigned are
\* exactly those that differed; and the backup holds the old text.
C8_WriterFrame ==
  wrote =>
    LET new == yaml_load(target.content).val
        old == yaml_load(preTarget.content).val
    IN /\ yaml_load(target.content).ok
       /\ DOMAIN new = DOMAIN old
       /\ \A f \in DOMAIN old \ {CertKey, PrivKey} : new[f] = old[f]
       /\ new[CertKey] = Str(cert)
       /\ new[PrivKey] = Str(key)
       /\ assigned = {f \in {CertKey} : old[f] # Str(cert)}
                       \cup {f \in {PrivKey} : old[f] # Str(key)}
       /\ assigned # {}
       /\ backup.content = preTarget.content

C8_Witness ==
  /\ wrote
  /\ pc = "Done"
  /\ assigned = {CertKey}
  /\ "users" \in DOMAIN adguardhome_config
  /\ preTarget.content # yaml_dump(yaml_load(preTarget.content).val)

\* C9: a run that fails in fix_permissions (chmod or chown refused) exits
\* non-zero with a PermissionError, and the target keeps the complete newly
\* written content, which differs from the backup.
C9_PermissionFailure ==
  (pc = "Abort" /\ error.step = "FixPermissions") =>
    /\ exitCode # 0
    /\ error.kind = "PermissionError"
    /\ wrote
    /\ target.content = yaml_dump(adguardhome_config)
    /\ yaml_load(target.content).val[CertKey] = Str(cert)
    /\ yaml_load(target.content).val[PrivKey] = Str(key)
    /\ target.content # backup.content
    /\ backup.content = preTarget.content

C9_Witness ==
  /\ pc = "Abort"
  /\ error.step = "FixPermissions"
  /\ target.mode = FixedMode
  /\ target.uid # RootId

\* C10: the steps a run has executed are always an initial part of
\* Init, ReadSource, ExtractCredential, ReadTarget, DetectChanges followed
\* by Done or by BackupTarget, WriteTarget, FixPermissions, Done; the step
\* about to run is the next one of that order; after a run has ended
\* nothing happens but the next invocation; and every run ends.
C10_LinearRun ==
  /\ [](TraceLinear /\ PcInOrder)
  /\ [][Terminated => (run' = run + 1 /\ trace' = <<>>)]_vars
  /\ (~Terminated ~> Terminated)

C10_Witness ==
  /\ trace = FullPath
  /\ pc = "Done"
  /\ exitCode = 0

=============================================================================
